---- MODULE Spec2Model ----
(***************************************************************************)
(* Screen (src/python/screen_calc.py): a value object built from five      *)
(* validated parameters, with derived geometry computed on every read.     *)
(*                                                                         *)
(* Numbers.  A Python float is modelled as a fixed-point number: the       *)
(* integer n stands for n / Scale, every operation is computed in the      *)
(* order the code computes it and rounded to the nearest representable     *)
(* value (ties to even), as binary64 does.  A Python int n converts to the *)
(* float n * Scale.  The inputs are chosen in the range where no result    *)
(* other than an exact 0 falls below 1 / Scale.                            *)
(***************************************************************************)
EXTENDS Integers, Sequences, FiniteSets

VARIABLES
    args,    \* the arguments __init__ was called with
    pc,      \* the statement of __init__ about to run, or "constructed" / "raised"
    self,    \* the instance's attributes: a function from the assigned names
    error,   \* the message of the ValueError raised, "" while none
    last,    \* the most recent accessor call and its outcome
    first,   \* the first accessor call and its outcome
    between  \* whether another accessor was called since the first call

vars == <<args, pc, self, error, last, first, between>>

----------------------------------------------------------------------------
(* Bounds of the checked inputs. *)

MaxDiagonal == 3
MaxRes == 3

Scale == 10 ^ 3

----------------------------------------------------------------------------
(* Fixed-point arithmetic standing for binary64. *)

Abs(x) == IF x < 0 THEN -x ELSE x

Sign(x) == IF x < 0 THEN -1 ELSE 1

\* n / d for n >= 0, d > 0, rounded to the nearest integer, ties to even.
RoundDivPos(n, d) ==
    LET q == n \div d
        r == n % d
    IN  IF 2 * r > d THEN q + 1
        ELSE IF 2 * r < d THEN q
        ELSE IF q % 2 = 0 THEN q ELSE q + 1

RoundDiv(n, d) == Sign(n) * Sign(d) * RoundDivPos(Abs(n), Abs(d))

\* int -> float
IntToFloat(n) == n * Scale

\* float * float
FMul(a, b) ==
    LET x == Abs(a)
        y == Abs(b)
    IN  Sign(a) * Sign(b) * ((x \div Scale) * y + RoundDivPos((x % Scale) * y, Scale))

\* float / float, b # 0 (the callers raise ZeroDivisionError before)
FDiv(a, b) ==
    LET x == Abs(a)
        y == Abs(b)
    IN  Sign(a) * Sign(b) * ((x \div y) * Scale + RoundDivPos((x % y) * Scale, y))

RECURSIVE ISqrtBits(_, _, _)
\* the largest r < 2 * bit with r * r <= n, one binary digit at a time
ISqrtBits(n, r, bit) ==
    IF bit = 0 THEN r
    ELSE IF r + bit <= 46340 /\ (r + bit) * (r + bit) <= n
         THEN ISqrtBits(n, r + bit, bit \div 2)
         ELSE ISqrtBits(n, r, bit \div 2)

\* the integer nearest to the square root of n >= 0
ISqrt(n) ==
    LET r == ISqrtBits(n, 0, 2 ^ 15)
    IN  IF n - r * r > r THEN r + 1 ELSE r

\* x ** 0.5 and math.sqrt(x): fewer fractional digits survive at large
\* magnitudes, as in a float
Sqrt(x) ==
    IF x <= 2 * 10 ^ 6 THEN ISqrt(x * Scale)
    ELSE IF x <= 2 * 10 ^ 8 THEN ISqrt(x * 10) * 10
    ELSE ISqrt(x \div 10) * 100

Pi == RoundDiv(31416 * Scale, 10 ^ 4)

HalfPi == RoundDiv(15708 * Scale, 10 ^ 4)

TwoPi == RoundDiv(62832 * Scale, 10 ^ 4)

\* 1 inch = 25.4 mm
MmPerInch == RoundDiv(254 * Scale, 10)

\* math.degrees(x) = x * (180 / pi)
Degrees(x) == FMul(x, RoundDiv(572958 * Scale, 10 ^ 4))

\* atan(c) for the breakpoints c = k / 4, k = 0 .. 4
AtanQuarter(k) ==
    CASE k = 0 -> 0
      [] k = 1 -> RoundDiv(244979 * Scale, 10 ^ 6)
      [] k = 2 -> RoundDiv(463648 * Scale, 10 ^ 6)
      [] k = 3 -> RoundDiv(643501 * Scale, 10 ^ 6)
      [] OTHER -> RoundDiv(785398 * Scale, 10 ^ 6)

\* atan on [-1/8, 1/8] by its series
AtanSeries(t) == t - RoundDiv(FMul(FMul(t, t), t), 3)

\* atan on [0, 1]: atan(x) = atan(c) + atan((x - c) / (1 + x * c)) for the
\* breakpoint c nearest to x
AtanUnit(x) ==
    LET k == RoundDivPos(4 * x, Scale)
        c == (k * Scale) \div 4
    IN  AtanQuarter(k) + AtanSeries(FDiv(x - c, Scale + FMul(x, c)))

\* math.atan(x)
Atan(x) ==
    LET y == Abs(x)
        a == AtanUnit(IF y <= Scale THEN y ELSE FDiv(Scale, y))
    IN  Sign(x) * (IF y <= Scale THEN a ELSE HalfPi - a)

\* sin on [0, pi / 2] by its series
SinSeries(x) ==
    LET x2 == FMul(x, x)
        x3 == FMul(x2, x)
        x5 == FMul(x3, x2)
        x7 == FMul(x5, x2)
        x9 == FMul(x7, x2)
    IN  x - RoundDiv(x3, 6) + RoundDiv(x5, 120) - RoundDiv(x7, 5040)
          + RoundDiv(x9, 362880)

\* cos on [0, pi / 2] by its series
CosSeries(x) ==
    LET x2 == FMul(x, x)
        x4 == FMul(x2, x2)
        x6 == FMul(x4, x2)
        x8 == FMul(x6, x2)
        x10 == FMul(x8, x2)
    IN  Scale - RoundDiv(x2, 2) + RoundDiv(x4, 24) - RoundDiv(x6, 720)
          + RoundDiv(x8, 40320) - RoundDiv(x10, 3628800)

\* math.sin(x)
Sin(x) ==
    LET y == Abs(x) % TwoPi
        s == SinSeries(IF y <= HalfPi THEN y
                       ELSE IF y <= Pi THEN Pi - y
                       ELSE IF y <= Pi + HalfPi THEN y - Pi
                       ELSE TwoPi - y)
    IN  Sign(x) * (IF y <= Pi THEN s ELSE -s)

\* math.cos(x)
Cos(x) ==
    LET y == Abs(x) % TwoPi
        c == CosSeries(IF y <= HalfPi THEN y
                       ELSE IF y <= Pi THEN Pi - y
                       ELSE IF y <= Pi + HalfPi THEN y - Pi
                       ELSE TwoPi - y)
    IN  IF y <= HalfPi \/ y > Pi + HalfPi THEN c ELSE -c

\* round(x): float -> int, to the nearest, ties to even
PyRound(x) == RoundDiv(x, Scale)

----------------------------------------------------------------------------
(* The arguments of a call Screen(diagonal, resolution, distance,          *)
(* curvature, scaling).  An Optional value is <<>> (None) or <<v>>.  The   *)
(* resolution argument carries its Python type and, per entry, the entry's *)
(* type: an int entry holds the integer, a float entry a fixed-point       *)
(* number.                                                                 *)

None == <<>>

Some(v) == <<v>>

IntEntry(n) == [type |-> "int", val |-> n]

FloatEntry(x) == [type |-> "float", val |-> x]

Tuple(items) == [type |-> "tuple", items |-> items]

List(items) == [type |-> "list", items |-> items]

Diagonals == {-Scale, 0, Scale, MaxDiagonal * Scale}

IntEntries == {IntEntry(n) : n \in 0 .. MaxRes}

Resolutions ==
    {Tuple(<<a, b>>) : a \in IntEntries, b \in IntEntries}
    \cup {Tuple(<<IntEntry(-1), IntEntry(1)>>),
          Tuple(<<FloatEntry(2 * Scale), IntEntry(1)>>),
          Tuple(<<IntEntry(2), FloatEntry((3 * Scale) \div 2)>>),
          Tuple(<<IntEntry(2)>>),
          Tuple(<<IntEntry(2), IntEntry(1), IntEntry(1)>>),
          List(<<IntEntry(2), IntEntry(1)>>)}

Distances == {-Scale, 0, 20 * Scale}

Curvatures == {None, Some(-Scale), Some(0), Some(20 * Scale), Some(50 * Scale)}

Scalings == {-Scale, 0, Scale, (5 * Scale) \div 4, 2 * Scale}

\* a square screen bent into a full circle, seen from a point of that
\* circle: width = 2 * pi * curvature and distance = 2 * curvature, so the
\* diagonal is 2 * pi * curvature * sqrt(2) / 25.4
FullCircle ==
    [diagonal |-> FDiv(FMul(FMul(TwoPi, 10 * Scale), Sqrt(2 * Scale)), MmPerInch),
     resolution |-> Tuple(<<IntEntry(1), IntEntry(1)>>),
     distance |-> 20 * Scale,
     curvature |-> Some(10 * Scale),
     scaling |-> Scale]

Arguments ==
    [diagonal : Diagonals, resolution : Resolutions, distance : Distances,
     curvature : Curvatures, scaling : Scalings]
    \cup {FullCircle}

----------------------------------------------------------------------------
(* An accessor's outcome: the value it returns or the exception it raises, *)
(* with the source line that returned or raised.                           *)

Value(v, l) == [ok |-> TRUE, exc |-> "", val |-> v, line |-> l]

Raise(l) == [ok |-> FALSE, exc |-> "ZeroDivisionError", val |-> 0, line |-> l]

NoCall == [prop |-> "", out |-> Value(0, 0)]

----------------------------------------------------------------------------
(* The derived properties, each computed from the attributes of s.         *)

\* self.resolution[i] as the float the division converts it to
Res(s, i) == IntToFloat(s.resolution.items[i + 1].val)

\* ratio = self.resolution[0] / self.resolution[1]
Ratio(s) == FDiv(Res(s, 0), Res(s, 1))

\* height = self.diagonal / ((ratio ** 2 + 1) ** 0.5) * 25.4
HeightOf(s, ratio) ==
    FMul(FDiv(s.diagonal, Sqrt(FMul(ratio, ratio) + Scale)), MmPerInch)

height(s) == HeightOf(s, Ratio(s))

\* width with the ratio inverted
widthInverted(s) == FMul(FDiv(Res(s, 1), Res(s, 0)), height(s))

\* ratio, then height as above, then width = ratio * height
width(s) == FMul(Ratio(s), height(s))

size(s) == <<width(s), height(s)>>

\* lines 75-76, for w = self.width / 25.4
PpiOf(s, w) ==
    IF w = 0 THEN Raise(75) ELSE Value(PyRound(FDiv(Res(s, 0), w)), 76)

ppi(s) == PpiOf(s, FDiv(width(s), MmPerInch))

\* PpiScaledOf multiplying by the factor instead of dividing
PpiScaledTimes(s, p) ==
    IF ~p.ok THEN p ELSE Value(PyRound(FMul(IntToFloat(p.val), s.scaling)), 84)

\* line 84, for p = self.ppi
PpiScaledOf(s, p) ==
    IF ~p.ok THEN p ELSE Value(PyRound(FDiv(IntToFloat(p.val), s.scaling)), 84)

ppi_scaled(s) == PpiScaledOf(s, ppi(s))

\* line 92, for p = self.ppi
PixelSizeOf(p) ==
    IF ~p.ok THEN p
    ELSE IF p.val = 0 THEN Raise(92)
    ELSE Value(FDiv(MmPerInch, IntToFloat(p.val)), 92)

pixel_size(s) == PixelSizeOf(ppi(s))

\* lines 104-106 and 144-146, for half = arc_angle / 2: the arc's chord
\* (arc_width) and the distance to it (arc_end_dist)
ArcOf(s, half) ==
    [arc_width |-> FMul(2 * s.curvature[1], Sin(half)),
     arc_end_dist |-> s.distance - FMul(s.curvature[1], Scale - Cos(half))]

\* lines 103-106 and 143-146, for a curvature # 0
Arc(s) == ArcOf(s, FDiv(FDiv(width(s), s.curvature[1]), 2 * Scale))

\* width and distance (flat), or arc_width and arc_end_dist (curved)
Extent(s) ==
    IF s.curvature = None \/ s.curvature[1] = 0
    THEN [arc_width |-> width(s), arc_end_dist |-> s.distance]
    ELSE Arc(s)

\* angle = degrees(2 * atan(x)), normalised on the curved branch
FovOf(angle, curved) ==
    IF ~curved THEN Value(angle, 101)
    ELSE Value(IF angle >= 0 THEN angle ELSE 360 * Scale + angle, 108)

\* FovHorizontalOf testing `not self.curvature`: a curvature of 0 is flat
FovHorizontalFalsy(s, e) ==
    IF s.curvature = None \/ s.curvature[1] = 0
    THEN FovOf(Degrees(2 * Atan(FDiv(FDiv(e.arc_width, 2 * Scale),
                                     e.arc_end_dist))), FALSE)
    ELSE IF e.arc_end_dist = 0 THEN Raise(107)
    ELSE FovOf(Degrees(2 * Atan(FDiv(FDiv(e.arc_width, 2 * Scale),
                                     e.arc_end_dist))), TRUE)

\* lines 100-109, for the extent e
FovHorizontalOf(s, e) ==
    IF s.curvature # None /\ s.curvature[1] = 0 THEN Raise(103)
    ELSE IF s.curvature # None /\ e.arc_end_dist = 0 THEN Raise(107)
    ELSE FovOf(Degrees(2 * Atan(FDiv(FDiv(e.arc_width, 2 * Scale),
                                     e.arc_end_dist))),
               s.curvature # None)

fov_horizontal(s) == FovHorizontalOf(s, Extent(s))

fov_vertical(s) ==
    Value(Degrees(2 * Atan(FDiv(FDiv(height(s), 2 * Scale), s.distance))), 118)

\* 1 / angle, raised or returned at line `ret`
InverseOf(angle, ret) ==
    IF angle = 0 THEN Raise(ret) ELSE Value(FDiv(Scale, angle), ret)

\* 1 / degrees(atan(ps / distance)) for ps = self.pixel_size: the division
\* inside atan raises at line `at`, the outer one at line `ret`
PpdAt(ps, distance, at, ret) ==
    IF ~ps.ok THEN ps
    ELSE IF distance = 0 THEN Raise(at)
    ELSE InverseOf(Degrees(Atan(FDiv(ps.val, distance))), ret)

\* ppd computed from the scaled pixel density
ppdScaled(s) == PpdAt(PixelSizeOf(ppi_scaled(s)), s.distance, 128, 129)

ppd(s) == PpdAt(pixel_size(s), s.distance, 128, 129)

\* sqrt(a ** 2 + b ** 2)
Hypot(a, b) == Sqrt(FMul(a, a) + FMul(b, b))

\* lines 138-149, for the extent e: distance_edge is the hypotenuse of
\* distance and width / 2 (flat), of arc_end_dist and arc_width / 2 (curved)
PpdEdgeOf(s, e) ==
    IF s.curvature = None
    THEN PpdAt(pixel_size(s),
               Hypot(e.arc_end_dist, FDiv(e.arc_width, 2 * Scale)), 140, 141)
    ELSE IF s.curvature[1] = 0 THEN Raise(143)
    ELSE PpdAt(pixel_size(s),
               Hypot(e.arc_end_dist, FDiv(e.arc_width, 2 * Scale)), 148, 149)

ppd_edge(s) == PpdEdgeOf(s, Extent(s))

resolution_scaled(s) ==
    <<PyRound(FDiv(Res(s, 0), s.scaling)), PyRound(FDiv(Res(s, 1), s.scaling))>>

\* f"{x:.2f}", f"{x:.4f}": x to that many decimals
Format(x, decimals) ==
    [fmt |-> decimals, digits |-> RoundDiv(x * 10 ^ decimals, Scale)]

Properties ==
    {"width", "height", "size", "ppi", "ppi_scaled", "pixel_size",
     "fov_horizontal", "fov_vertical", "ppd", "ppd_edge", "resolution_scaled"}

\* the outcome of reading property p of s
Get(s, p) ==
    CASE p = "width" -> Value(width(s), 48)
      [] p = "height" -> Value(height(s), 58)
      [] p = "size" -> Value(size(s), 66)
      [] p = "ppi" -> ppi(s)
      [] p = "ppi_scaled" -> ppi_scaled(s)
      [] p = "pixel_size" -> pixel_size(s)
      [] p = "fov_horizontal" -> fov_horizontal(s)
      [] p = "fov_vertical" -> fov_vertical(s)
      [] p = "ppd" -> ppd(s)
      [] p = "ppd_edge" -> ppd_edge(s)
      [] OTHER -> Value(resolution_scaled(s), 157)

\* the properties __str__ reads, in the order the f-string evaluates them
StrReads ==
    <<"width", "height", "size", "size", "ppi", "ppi_scaled", "pixel_size",
      "fov_horizontal", "fov_vertical", "ppd", "ppd_edge", "resolution_scaled">>

\* the summary of the values read, or the first exception raised
Summary(s, outs, failed) ==
    IF failed # {}
    THEN outs[CHOOSE i \in failed : \A j \in failed : i <= j]
    ELSE Value(<<"Screen(",
                 <<"diagonal=", s.diagonal>>,
                 <<"resolution=", s.resolution>>,
                 <<"distance=", s.distance>>,
                 <<"curvature=", s.curvature>>,
                 <<"scaling=", s.scaling>>,
                 <<"width=", Format(outs[1].val, 2)>>,
                 <<"height=", Format(outs[2].val, 2)>>,
                 <<"size=", <<Format(outs[3].val[1], 2),
                              Format(outs[4].val[2], 2)>> >>,
                 <<"ppi=", outs[5].val>>,
                 <<"ppi_scaled=", outs[6].val>>,
                 <<"pixel_size=", Format(outs[7].val, 4)>>,
                 <<"fov_horizontal=", Format(outs[8].val, 2)>>,
                 <<"fov_vertical=", Format(outs[9].val, 2)>>,
                 <<"ppd=", Format(outs[10].val, 2)>>,
                 <<"ppd_edge=", Format(outs[11].val, 2)>>,
                 <<"resolution_scaled=", outs[12].val>>,
                 ")">>, 161)

StrOf(s, outs) == Summary(s, outs, {i \in DOMAIN outs : ~outs[i].ok})

__str__(s) == StrOf(s, [i \in DOMAIN StrReads |-> Get(s, StrReads[i])])

----------------------------------------------------------------------------
(* Screen.__init__, one action per statement. *)

Fields == {"diagonal", "resolution", "distance", "curvature", "scaling"}

\* self.<field> = value
SetAttr(s, field, value) ==
    [f \in DOMAIN s \cup {field} |-> IF f = field THEN value ELSE s[f]]

\* the condition of line 23, without its "not"
ResolutionOk(resolution) ==
    /\ resolution.type = "tuple"
    /\ Len(resolution.items) = 2
    /\ \A i \in DOMAIN resolution.items :
           resolution.items[i].type = "int" /\ resolution.items[i].val > 0

Init ==
    /\ args \in Arguments
    /\ pc = "check_diagonal"
    /\ self = [f \in {} |-> 0]
    /\ error = ""
    /\ last = NoCall
    /\ first = NoCall
    /\ between = FALSE

\* raise ValueError(message)
RaiseValueError(message) ==
    /\ pc' = "raised"
    /\ error' = message
    /\ UNCHANGED <<args, self, last, first, between>>

\* fall through to the next statement
Goto(next) ==
    /\ pc' = next
    /\ UNCHANGED <<args, self, error, last, first, between>>

\* ValidateDiagonal storing the attribute as soon as it is validated
ValidateDiagonalEager ==
    /\ pc = "check_diagonal"
    /\ IF args.diagonal <= 0
       THEN RaiseValueError("Diagonal must be a positive number.")
       ELSE /\ pc' = "check_resolution"
            /\ self' = SetAttr(self, "diagonal", args.diagonal)
            /\ UNCHANGED <<args, error, last, first, between>>

ValidateDiagonal ==
    /\ pc = "check_diagonal"
    /\ IF args.diagonal <= 0
       THEN RaiseValueError("Diagonal must be a positive number.")
       ELSE Goto("check_resolution")

ValidateResolution ==
    /\ pc = "check_resolution"
    /\ IF ~ResolutionOk(args.resolution)
       THEN RaiseValueError("Resolution must be a tuple of two positive integers (width, height).")
       ELSE Goto("check_distance")

\* ValidateDistance with `<` for `<=`: a distance of 0 passes
ValidateDistanceStrict ==
    /\ pc = "check_distance"
    /\ IF args.distance < 0
       THEN RaiseValueError("Distance must be a positive number.")
       ELSE Goto("check_curvature")

ValidateDistance ==
    /\ pc = "check_distance"
    /\ IF args.distance <= 0
       THEN RaiseValueError("Distance must be a positive number.")
       ELSE Goto("check_curvature")

\* ValidateCurvature with the scaling check moved in front of it
ValidateCurvatureAfterScaling ==
    /\ pc = "check_curvature"
    /\ IF args.scaling <= 0
       THEN RaiseValueError("Scaling must be a positive number.")
       ELSE IF args.curvature # None /\ args.curvature[1] < 0
       THEN RaiseValueError("Curvature must be non-negative or None.")
       ELSE Goto("check_scaling")

ValidateCurvature ==
    /\ pc = "check_curvature"
    /\ IF args.curvature # None /\ args.curvature[1] < 0
       THEN RaiseValueError("Curvature must be non-negative or None.")
       ELSE Goto("check_scaling")

ValidateScaling ==
    /\ pc = "check_scaling"
    /\ IF args.scaling <= 0
       THEN RaiseValueError("Scaling must be a positive number.")
       ELSE Goto("set_diagonal")

\* self.<field> = <field>, then the statement `next`
Assign(field, next) ==
    /\ pc = "set_" \o field
    /\ self' = SetAttr(self, field, args[field])
    /\ pc' = next
    /\ UNCHANGED <<args, error, last, first, between>>

AssignDiagonal == Assign("diagonal", "set_resolution")

AssignResolution == Assign("resolution", "set_distance")

AssignDistance == Assign("distance", "set_curvature")

AssignCurvature == Assign("curvature", "set_scaling")

\* AssignScaling storing the parameter's default, not the argument
AssignScalingDefault ==
    /\ pc = "set_scaling"
    /\ self' = SetAttr(self, "scaling", Scale)
    /\ pc' = "constructed"
    /\ UNCHANGED <<args, error, last, first, between>>

AssignScaling == Assign("scaling", "constructed")

----------------------------------------------------------------------------
(* Calls on the constructed instance. *)

\* record the call: the most recent one, and the first one
Observe(prop, out) ==
    /\ last' = [prop |-> prop, out |-> out]
    /\ first' = IF first = NoCall THEN [prop |-> prop, out |-> out] ELSE first
    /\ between' = (between \/ (first # NoCall /\ prop # first.prop))

\* ReadProperty with ppi_scaled and resolution_scaled applying the scaling
\* in place: the factor is reset to 1 once it has been used
ReadPropertyInPlace ==
    /\ pc = "constructed"
    /\ \E p \in Properties :
          /\ Observe(p, Get(self, p))
          /\ self' = IF p \in {"ppi_scaled", "resolution_scaled"}
                     THEN SetAttr(self, "scaling", Scale)
                     ELSE self
    /\ UNCHANGED <<args, pc, error>>

\* screen.<p>
ReadProperty ==
    /\ pc = "constructed"
    /\ \E p \in Properties : Observe(p, Get(self, p))
    /\ UNCHANGED <<args, pc, self, error>>

\* str(screen)
CallStr ==
    /\ pc = "constructed"
    /\ Observe("__str__", __str__(self))
    /\ UNCHANGED <<args, pc, self, error>>

Next ==
    \/ ValidateDiagonal
    \/ ValidateResolution
    \/ ValidateDistance
    \/ ValidateCurvature
    \/ ValidateScaling
    \/ AssignDiagonal
    \/ AssignResolution
    \/ AssignDistance
    \/ AssignCurvature
    \/ AssignScaling
    \/ ReadProperty
    \/ CallStr

Spec == Init /\ [][Next]_vars

----------------------------------------------------------------------------
(* Vocabulary of the properties. *)

Constructed == pc = "constructed"

Raised == pc = "raised"

\* the field an error message names
ErrorField(message) ==
    CASE message = "Diagonal must be a positive number." -> "diagonal"
      [] message = "Resolution must be a tuple of two positive integers (width, height)." -> "resolution"
      [] message = "Distance must be a positive number." -> "distance"
      [] message = "Curvature must be non-negative or None." -> "curvature"
      [] message = "Scaling must be a positive number." -> "scaling"
      [] OTHER -> "none"

\* the argument for `field` breaks the rule stated for it
Violates(a, field) ==
    CASE field = "diagonal" -> a.diagonal <= 0
      [] field = "resolution" ->
            \/ a.resolution.type # "tuple"
            \/ Len(a.resolution.items) # 2
            \/ \E i \in DOMAIN a.resolution.items :
                  a.resolution.items[i].type # "int" \/ a.resolution.items[i].val <= 0
      [] field = "distance" -> a.distance <= 0
      [] field = "curvature" -> a.curvature # None /\ a.curvature[1] < 0
      [] field = "scaling" -> a.scaling <= 0
      [] OTHER -> FALSE

ValidationOrder == <<"diagonal", "resolution", "distance", "curvature", "scaling">>

\* the first field, in the order of validation, whose argument is invalid
FirstViolated(a) ==
    LET bad == {i \in DOMAIN ValidationOrder : Violates(a, ValidationOrder[i])}
    IN  IF bad = {} THEN "none"
        ELSE ValidationOrder[CHOOSE i \in bad : \A j \in bad : i <= j]

\* two outcomes of the same property are the same
Same(a, b) == a.ok = b.ok /\ a.line = b.line /\ a.exc = b.exc /\ a.val = b.val

\* the entries of the stored resolution
ResInts(s) == <<s.resolution.items[1].val, s.resolution.items[2].val>>

\* v is an integer nearest to n / scaling, the quotient being rounded to
\* 1 / Scale before it is rounded to an integer
Nearest(v, n, scaling) ==
    2 * Abs(v * scaling - n * Scale) <= scaling + (scaling + Scale - 1) \div Scale

\* the properties of the base geometry
BaseProperties ==
    {"width", "height", "size", "ppi", "pixel_size", "fov_vertical", "ppd"}

ValidCurvatures == {c \in Curvatures : ~Violates([curvature |-> c], "curvature")}

ValidScalings == {k \in Scalings : ~Violates([scaling |-> k], "scaling")}

\* the instance that agrees with s on diagonal, resolution and distance and
\* has curvature c and scaling k
Variant(s, c, k) == [s EXCEPT !.curvature = c, !.scaling = k]

----------------------------------------------------------------------------
\* C1: construction raises a ValueError naming a field whose argument is
\* invalid whenever some argument is invalid (diagonal <= 0; resolution not
\* a tuple of two entries, or with an entry that is not an int or is <= 0;
\* distance <= 0; curvature present and < 0; scaling <= 0), and never raises
\* when no argument is invalid.
C1_InvalidParameter ==
    /\ Raised => error # "" /\ Violates(args, ErrorField(error))
    /\ (\E f \in Fields : Violates(args, f)) =>
           self = [f \in {} |-> 0] /\ pc \in {"check_" \o f : f \in Fields} \cup {"raised"}
    /\ (\A f \in Fields : ~Violates(args, f)) => ~Raised /\ error = ""

C1_Witness ==
    /\ Raised
    /\ ErrorField(error) = "resolution"
    /\ args.resolution.type = "tuple"
    /\ Len(args.resolution.items) = 2
    /\ args.resolution.items[1].type = "float"

\* C2 (as stated): on an instance whose curvature is absent or > 0, no call
\* of a derived property or of the textual summary raises.
C2_NeverRaises ==
    (Constructed /\ last # NoCall /\ (self.curvature = None \/ self.curvature[1] > 0))
        => last.out.ok

\* C3: a curvature of 0 is accepted and stored as 0; fov_horizontal and
\* ppd_edge then raise ZeroDivisionError at arc_angle = width / curvature
\* (lines 103 and 143), while an absent curvature takes the flat branch
\* (line 101; lines 140-141 or an exception of pixel_size).
C3_ZeroCurvature ==
    /\ (Raised /\ args.curvature = Some(0)) => ErrorField(error) # "curvature"
    /\ (Constructed /\ args.curvature = Some(0)) => self.curvature = Some(0)
    /\ (Constructed /\ self.curvature = Some(0) /\ last.prop = "fov_horizontal") =>
           ~last.out.ok /\ last.out.exc = "ZeroDivisionError" /\ last.out.line = 103
    /\ (Constructed /\ self.curvature = Some(0) /\ last.prop = "ppd_edge") =>
           ~last.out.ok /\ last.out.exc = "ZeroDivisionError" /\ last.out.line = 143
    /\ (Constructed /\ self.curvature = None /\ last.prop = "fov_horizontal") =>
           last.out.ok /\ last.out.line = 101
    /\ (Constructed /\ self.curvature = None /\ last.prop = "ppd_edge") =>
           last.out.line \in {75, 92, 140, 141}

C3_Witness ==
    /\ Constructed
    /\ self.curvature = Some(0)
    /\ first.prop = "fov_horizontal" /\ ~first.out.ok
    /\ last.prop = "ppd_edge" /\ ~last.out.ok

\* C4: once constructed, and after any calls of the accessors, the five
\* attributes are the arguments of the constructor and satisfy its rules.
C4_Immutable ==
    Constructed =>
        /\ DOMAIN self = Fields
        /\ \A f \in Fields : self[f] = args[f] /\ ~Violates(self, f)

C4_Witness ==
    /\ Constructed
    /\ between
    /\ first.prop = "ppi_scaled"
    /\ last.prop = "__str__"
    /\ self.scaling = 2 * Scale

\* C5: a construction that raises has assigned no attribute and computed
\* nothing; an attribute is assigned only after every check has passed, and
\* an accessor is called only on an instance holding all five attributes.
C5_AllOrNothing ==
    /\ Raised => self = [f \in {} |-> 0] /\ last = NoCall /\ first = NoCall
    /\ self # [f \in {} |-> 0] => error = "" /\ \A f \in Fields : ~Violates(args, f)
    /\ last # NoCall => DOMAIN self = Fields

C5_Witness ==
    /\ Raised
    /\ ErrorField(error) = "scaling"
    /\ self = [f \in {} |-> 0]

\* C6: calling the accessor that was called first again, with calls of
\* other accessors in between, returns the outcome of the first call.
C6_Idempotent ==
    (Constructed /\ last.prop = first.prop) => Same(last.out, first.out)

C6_Witness ==
    /\ Constructed
    /\ between
    /\ first.prop = "ppi_scaled" /\ first.out.ok
    /\ last.prop = "ppi_scaled"
    /\ self.scaling = 2 * Scale

\* C7: with scaling 1, ppi_scaled is ppi and resolution_scaled is the
\* resolution; for every scaling, ppi_scaled is an integer nearest to
\* ppi / scaling and each axis of resolution_scaled is an integer nearest to
\* that axis / scaling.
C7_Scaling ==
    /\ (Constructed /\ last.prop = "ppi_scaled" /\ last.out.ok) =>
           /\ ppi(self).ok
           /\ Nearest(last.out.val, ppi(self).val, self.scaling)
           /\ self.scaling = Scale => last.out.val = ppi(self).val
    /\ (Constructed /\ last.prop = "resolution_scaled") =>
           /\ last.out.ok
           /\ \A i \in 1 .. 2 :
                  Nearest(last.out.val[i], ResInts(self)[i], self.scaling)
           /\ self.scaling = Scale => last.out.val = ResInts(self)

C7_Witness ==
    /\ Constructed
    /\ self.scaling = Scale
    /\ first.prop = "ppi_scaled" /\ first.out.ok /\ first.out.val > 0
    /\ last.prop = "resolution_scaled"

C9_MonitorPrefix ==
    (Constructed /\ last.prop = "__str__" /\ last.out.ok) =>
        /\ Head(last.out.val) = "Monitor("
        /\ last.out.val[Len(last.out.val)] = ")"

\* C10: the error raised is the one of the first invalid field in the order
\* diagonal, resolution, distance, curvature, scaling.
C10_FirstViolation ==
    Raised => ErrorField(error) = FirstViolated(args)

C10_Witness ==
    /\ Raised
    /\ ErrorField(error) = "curvature"
    /\ Violates(args, "scaling")

\* C11 (as stated): on an instance with curvature > 0, fov_horizontal
\* returns an angle strictly between 0 and 360 degrees and never raises.
C11_OpenInterval ==
    (Constructed /\ self.curvature # None /\ self.curvature[1] > 0
        /\ last.prop = "fov_horizontal") =>
        /\ last.out.ok
        /\ last.out.val > 0
        /\ last.out.val < 360 * Scale

\* C12: a property of the base geometry (width, height, size, ppi,
\* pixel_size, fov_vertical, ppd) has the same outcome on every valid instance
\* with the same diagonal, resolution and distance, whatever its curvature and
\* scaling; fov_horizontal and ppd_edge have the same outcome whatever the
\* scaling, ppi_scaled and resolution_scaled whatever the curvature.
C12_BaseGeometry ==
    (Constructed /\ last.prop \in Properties) =>
        \A c \in ValidCurvatures, k \in ValidScalings :
            /\ last.prop \in BaseProperties =>
                   Same(Get(Variant(self, c, k), last.prop), last.out)
            /\ last.prop \in {"fov_horizontal", "ppd_edge"} =>
                   Same(Get(Variant(self, self.curvature, k), last.prop), last.out)
            /\ last.prop \in {"ppi_scaled", "resolution_scaled"} =>
                   Same(Get(Variant(self, c, self.scaling), last.prop), last.out)

C12_Witness ==
    /\ Constructed
    /\ self.curvature = Some(20 * Scale)
    /\ self.scaling = 2 * Scale
    /\ first.prop = "ppi" /\ first.out.ok /\ first.out.val > 0
    /\ last.prop = "ppd" /\ last.out.ok
    /\ \E c \in ValidCurvatures, k \in ValidScalings :
          /\ ~Same(fov_horizontal(Variant(self, c, k)), fov_horizontal(self))
          /\ ~Same(ppi_scaled(Variant(self, c, k)), ppi_scaled(self))
          /\ Same(ppd(Variant(self, c, k)), last.out)

====
